---- MODULE Spec2Model ----
(***************************************************************************)
(* Verification development for the Tendermint light client core           *)
(* (ChorusOne/tendermint-light-client).                                    *)
(*                                                                         *)
(* The model instantiates the generic verify_single with the concrete      *)
(* types of the crate (LightSignedHeader, LightHeader, validator::Set,     *)
(* validator::Info, TrustThresholdFraction), as lib.rs::verify_single_light*)
(* does.                                                                   *)
(*                                                                         *)
(* Abstractions:                                                           *)
(*  - SHA-256 / the Merkle root are collision free: a hash is modelled by  *)
(*    the tagged sequence of the values it was computed from.              *)
(*  - Ed25519: a signature is the pair (signing key, signed bytes), and it *)
(*    verifies under a public key over sign-bytes iff both agree.          *)
(*  - An account address is derived from the public key; both are the same *)
(*    small number.                                                        *)
(*  - Time and Duration are whole numbers of seconds.                      *)
(*  - The chain id is the same for all headers.                            *)
(*  - u64 is an unsigned word of U64Bits bits instead of 64, so that its   *)
(*    overflow happens at numbers the model can hold.  The arithmetic of   *)
(*    the code is unchecked: it wraps around (the release profile; with    *)
(*    overflow checks on, the same inputs abort the call).                 *)
(***************************************************************************)
EXTENDS Integers, Sequences, FiniteSets, TLC

(***************************************************************************)
(* Bounds of the model.                                                    *)
(***************************************************************************)
\* validator addresses are 1..NumAddrs
NumAddrs == 3
\* the width of the machine word that stands for u64
U64Bits == 5
\* voting powers are 1..MaxPower, and half the range of the word
MaxPower == 2
\* header heights are 1..MaxHeight
MaxHeight == 4
\* header times and "now" are 0..MaxTime
MaxTime == 3
\* trusting periods are 0..MaxPeriod
MaxPeriod == 2
\* the store is bootstrapped at height MaxHeight - 2 and goes on calling
\* verify_single for SyncDepth successful updates at most
SyncDepth == 1
\* a store following the chain goes on for ChainDepth successful updates
ChainDepth == 3
\* the most leaves of a Merkle tree
MaxLeaves == 9

Addrs == 1..NumAddrs
U64Modulus == 2 ^ U64Bits
Powers == (1..MaxPower) \cup {U64Modulus \div 2}
Heights == 1..MaxHeight
Times == 0..MaxTime
Periods == 0..MaxPeriod

(***************************************************************************)
(* Results: Result<T, Error>.  kind is "Ok" or the errors::Kind variant,   *)
(* info the Ok value or the variant's fields.                              *)
(***************************************************************************)
\* the value of an u64 expression: unchecked arithmetic wraps around
u64(n) == n % U64Modulus

Ok(v) == [kind |-> "Ok", info |-> v]
Err(k, i) == [kind |-> k, info |-> i]
IsOk(r) == r.kind = "Ok"

\* Option<T>
None == <<>>
Some(v) == <<v>>

(***************************************************************************)
(* Validators and validator sets (types/validator.rs)                      *)
(***************************************************************************)
\* validator::Info; Info::new derives the address from the public key
Info(pk, vp) == [address |-> pk, pub_key |-> pk, voting_power |-> vp]

\* Validator::hash_bytes: amino(InfoHashable{pub_key, voting_power})
hash_bytes(v) == <<v.pub_key, v.voting_power>>

\* Vec::dedup_by(|a, b| a.address() == b.address()): drops an element whose
\* address equals that of the element kept just before it
RECURSIVE dedup_by_address(_)
dedup_by_address(vals) ==
    IF Len(vals) <= 1 THEN vals
    ELSE LET front == dedup_by_address(SubSeq(vals, 1, Len(vals) - 1))
             last == vals[Len(vals)]
         IN IF front[Len(front)].address = last.address
            THEN front
            ELSE Append(front, last)

\* insertion of v into a sequence sorted by address, after the elements with
\* an equal address (sort_by is stable)
RECURSIVE insert_by_address(_, _)
insert_by_address(sorted, v) ==
    IF sorted = <<>> THEN <<v>>
    ELSE IF sorted[Len(sorted)].address <= v.address
         THEN Append(sorted, v)
         ELSE Append(insert_by_address(SubSeq(sorted, 1, Len(sorted) - 1), v),
                     sorted[Len(sorted)])

\* Vec::sort_by(|v1, v2| v1.address().cmp(&v2.address()))
RECURSIVE sort_by_address(_)
sort_by_address(vals) ==
    IF vals = <<>> THEN <<>>
    ELSE insert_by_address(sort_by_address(SubSeq(vals, 1, Len(vals) - 1)),
                           vals[Len(vals)])

\* Set::new: dedup, then sort
SetNew(vals) == [validators |-> sort_by_address(dedup_by_address(vals))]

\* simple_hash_from_byte_vectors over the validators' hash_bytes
SetHash(set) ==
    <<"Sha256", [i \in 1..Len(set.validators) |-> hash_bytes(set.validators[i])]>>

\* u64 sum of the voting powers, in order
RECURSIVE sum_powers(_)
sum_powers(vals) ==
    IF vals = <<>> THEN 0
    ELSE u64(sum_powers(SubSeq(vals, 1, Len(vals) - 1)) + vals[Len(vals)].voting_power)

total_power(set) == sum_powers(set.validators)

\* Set::validator: the first validator with this address
validator(set, val_id) ==
    LET idx == {i \in 1..Len(set.validators) : set.validators[i].address = val_id}
    IN IF idx = {} THEN None
       ELSE Some(set.validators[CHOOSE i \in idx : \A j \in idx : i <= j])

\* HashMap::from_iter(validators.map(|v| (v.address(), v))): a later entry
\* replaces an earlier one with the same address
hashmap_by_address(set) ==
    LET vs == set.validators
        keys == {vs[i].address : i \in 1..Len(vs)}
    IN [a \in keys |->
          vs[CHOOSE i \in 1..Len(vs) :
                /\ vs[i].address = a
                /\ \A j \in 1..Len(vs) : vs[j].address = a => j <= i]]

\* a sequence holding the elements of a finite set of validators, in some order
RECURSIVE seq_of(_)
seq_of(S) ==
    IF S = {} THEN <<>>
    ELSE LET x == CHOOSE y \in S : TRUE IN Append(seq_of(S \ {x}), x)

\* Set::intersect: the left map's values whose address is in both maps,
\* drained in the map's order and handed to Set::new
intersect(self, other) ==
    LET left_hashmap == hashmap_by_address(self)
        right_hashmap == hashmap_by_address(other)
        intersection == DOMAIN left_hashmap \cap DOMAIN right_hashmap
    IN SetNew(seq_of({left_hashmap[a] : a \in intersection}))

number_of_validators(set) == Len(set.validators)

(***************************************************************************)
(* Trust threshold (types/trusted.rs)                                      *)
(***************************************************************************)
\* TrustThresholdFraction::new
TrustThresholdFraction_new(numerator, denominator) ==
    IF numerator <= denominator /\ denominator > 0 /\ u64(3 * numerator) >= denominator
    THEN Ok([numerator |-> numerator, denominator |-> denominator])
    ELSE Err("InvalidTrustThreshold", <<numerator, denominator>>)

\* TrustThreshold::minimum_power_to_be_trusted
minimum_power_to_be_trusted(self, total_voting_power) ==
    u64((u64(total_voting_power * self.numerator) \div self.denominator) + 1)

\* TrustThreshold::is_enough_power
is_enough_power(self, signed_voting_power, total_voting_power) ==
    signed_voting_power >= minimum_power_to_be_trusted(self, total_voting_power)

\* Default for TrustThresholdFraction
TrustThresholdFraction_default == TrustThresholdFraction_new(2, 3).info

\* TrustedState::new
TrustedState_new(last_header, validators) ==
    [last_header |-> last_header, validators |-> validators]

(***************************************************************************)
(* Headers, commits and votes (types/block, types/vote)                    *)
(***************************************************************************)
ChainId == "test-chain"

\* Header::hash: the Merkle root of the header's encoded fields
HeaderHash(header) ==
    <<"Sha256", <<header.chain_id, header.height, header.time,
                  header.validators_hash, header.next_validators_hash>>>>

\* SignedVote::sign_bytes: the canonical vote
\* (type, height, round, block_id, timestamp, chain_id)
sign_bytes(vote, chain_id) ==
    <<"Precommit", vote.height, vote.round, vote.block_id, vote.timestamp, chain_id>>

\* non_absent_votes: the votes of the commit's non-absent signatures, in order
RECURSIVE non_absent_votes_upto(_, _)
non_absent_votes_upto(commit, n) ==
    IF n = 0 THEN <<>>
    ELSE LET rest == non_absent_votes_upto(commit, n - 1)
             commit_sig == commit.signatures[n]
         IN IF commit_sig.flag = "BlockIDFlagAbsent" THEN rest
            ELSE Append(rest,
                   [vote_type |-> "Precommit",
                    height |-> commit.height,
                    round |-> commit.round,
                    block_id |-> IF commit_sig.flag = "BlockIDFlagCommit"
                                 THEN Some(commit.block_id)
                                 ELSE None,
                    timestamp |-> commit_sig.timestamp,
                    validator_address |-> commit_sig.validator_address,
                    validator_index |-> n - 1,
                    signature |-> commit_sig.signature])

non_absent_votes(commit) == non_absent_votes_upto(commit, Len(commit.signatures))

\* LightSignedHeader::signed_votes: each vote with its canonical sign-bytes
signed_votes(lsh) ==
    LET votes == non_absent_votes(lsh.commit)
    IN [i \in 1..Len(votes) |->
          [sign_bytes |-> sign_bytes(votes[i], lsh.header.chain_id),
           validator_address |-> votes[i].validator_address,
           signature |-> votes[i].signature]]

\* Info::verify_signature (Ed25519)
verify_signature(val, bytes, signature) ==
    signature.key = val.pub_key /\ signature.msg = bytes

\* the turn of the loop with the signature verified before the vote is
\* looked up among those seen
voting_power_step_signature_first(acc, vote, validators) ==
    IF ~IsOk(acc) THEN acc
    ELSE LET val_id == vote.validator_address
             found == validator(validators, val_id)
         IN IF found = None THEN acc
            ELSE IF ~verify_signature(found[1], vote.sign_bytes, vote.signature)
            THEN Err("ImplementationSpecific", "bad signature")
            ELSE IF val_id \in acc.info.seen_votes
            THEN Err("ImplementationSpecific", "duplicate vote")
            ELSE Ok([seen_votes |-> acc.info.seen_votes \cup {val_id},
                     signed_power |->
                         u64(acc.info.signed_power + found[1].voting_power)])

\* one turn of the loop of voting_power_in; acc is the running Result whose
\* Ok value is (seen_votes, signed_power)
voting_power_step(acc, vote, validators) ==
    IF ~IsOk(acc) THEN acc
    ELSE LET val_id == vote.validator_address
             found == validator(validators, val_id)
         IN IF found = None THEN acc
            ELSE IF val_id \in acc.info.seen_votes
            THEN Err("ImplementationSpecific", "duplicate vote")
            ELSE IF ~verify_signature(found[1], vote.sign_bytes, vote.signature)
            THEN Err("ImplementationSpecific", "bad signature")
            ELSE Ok([seen_votes |-> acc.info.seen_votes \cup {val_id},
                     signed_power |->
                         u64(acc.info.signed_power + found[1].voting_power)])

RECURSIVE voting_power_loop(_, _, _)
voting_power_loop(votes, n, validators) ==
    IF n = 0 THEN Ok([seen_votes |-> {}, signed_power |-> 0])
    ELSE voting_power_step(voting_power_loop(votes, n - 1, validators),
                           votes[n], validators)

\* LightSignedHeader::voting_power_in
voting_power_in(lsh, validators) ==
    LET votes == signed_votes(lsh)
        r == voting_power_loop(votes, Len(votes), validators)
    IN IF IsOk(r) THEN Ok(r.info.signed_power) ELSE r

\* LightSignedHeader::header_hash
header_hash(lsh) == lsh.commit.block_id.hash

\* LightSignedHeader::validate without the comparison of the two counts
commit_validate_any_count(lsh, vals) ==
    LET sigs == lsh.commit.signatures
    IN IF Len(sigs) = 0
       THEN Err("ImplementationSpecific", "no signatures for commit")
       ELSE IF \E i \in 1..Len(sigs) :
                 /\ sigs[i].flag # "BlockIDFlagAbsent"
                 /\ validator(vals, sigs[i].validator_address) = None
       THEN Err("ImplementationSpecific", "faulty signer")
       ELSE Ok("unit")

\* LightSignedHeader::validate without the search for signers that are not
\* in the validator set
commit_validate_any_signer(lsh, vals) ==
    LET sigs == lsh.commit.signatures
    IN IF Len(sigs) = 0
       THEN Err("ImplementationSpecific", "no signatures for commit")
       ELSE IF Len(sigs) # Len(vals.validators)
       THEN Err("ImplementationSpecific", "signatures count")
       ELSE Ok("unit")

\* LightSignedHeader::validate
commit_validate(lsh, vals) ==
    LET sigs == lsh.commit.signatures
    IN IF Len(sigs) = 0
       THEN Err("ImplementationSpecific", "no signatures for commit")
       ELSE IF Len(sigs) # Len(vals.validators)
       THEN Err("ImplementationSpecific", "signatures count")
       ELSE IF \E i \in 1..Len(sigs) :
                 /\ sigs[i].flag # "BlockIDFlagAbsent"
                 /\ validator(vals, sigs[i].validator_address) = None
       THEN Err("ImplementationSpecific", "faulty signer")
       ELSE Ok("unit")

(***************************************************************************)
(* Verification (verification.rs)                                          *)
(***************************************************************************)
\* is_within_trust_period with the header still trusted at the instant it expires
is_within_trust_period_late(last_header, trusting_period, now) ==
    LET header_time == last_header.time
        expires_at == header_time + trusting_period
    IN IF expires_at < now
       THEN Err("Expired", [at |-> expires_at, now |-> now])
       ELSE IF ~(header_time <= now)
       THEN Err("DurationOutOfRange", "header time > now")
       ELSE Ok("unit")

\* is_within_trust_period without the test of the header time against now
is_within_trust_period_unchecked_now(last_header, trusting_period, now) ==
    LET header_time == last_header.time
        expires_at == header_time + trusting_period
    IN IF expires_at <= now
       THEN Err("Expired", [at |-> expires_at, now |-> now])
       ELSE Ok("unit")

\* is_within_trust_period reporting expiry at the expiry instant only
is_within_trust_period_instant(last_header, trusting_period, now) ==
    LET header_time == last_header.time
        expires_at == header_time + trusting_period
    IN IF expires_at = now
       THEN Err("Expired", [at |-> expires_at, now |-> now])
       ELSE IF ~(header_time <= now)
       THEN Err("DurationOutOfRange", "header time > now")
       ELSE Ok("unit")

\* is_within_trust_period
is_within_trust_period(last_header, trusting_period, now) ==
    LET header_time == last_header.time
        expires_at == header_time + trusting_period
    IN IF expires_at <= now
       THEN Err("Expired", [at |-> expires_at, now |-> now])
       ELSE IF ~(header_time <= now)
       THEN Err("DurationOutOfRange", "header time > now")
       ELSE Ok("unit")

\* validate with the commit compared before the next validators
validate_commit_first(header, commit, vals, possible_next_vals) ==
    IF header.validators_hash # SetHash(vals)
    THEN Err("InvalidValidatorSet",
             [header_val_hash |-> header.validators_hash,
              expected_val_hash |-> SetHash(vals)])
    ELSE IF HeaderHash(header) # header_hash(commit)
    THEN Err("InvalidCommitValue",
             [header_hash |-> HeaderHash(header),
              commit_hash |-> header_hash(commit)])
    ELSE IF /\ possible_next_vals # None
            /\ header.next_validators_hash # SetHash(possible_next_vals[1])
    THEN Err("InvalidNextValidatorSet",
             [header_next_val_hash |-> header.next_validators_hash,
              expected_next_val_hash |-> SetHash(possible_next_vals[1])])
    ELSE commit_validate(commit, vals)

\* validate without the comparisons of the next validators and of the commit
validate_vals_only(header, commit, vals, possible_next_vals) ==
    IF header.validators_hash # SetHash(vals)
    THEN Err("InvalidValidatorSet",
             [header_val_hash |-> header.validators_hash,
              expected_val_hash |-> SetHash(vals)])
    ELSE commit_validate(commit, vals)

\* validate: the header against its commit, vals and (possibly) next vals
validate(header, commit, vals, possible_next_vals) ==
    IF header.validators_hash # SetHash(vals)
    THEN Err("InvalidValidatorSet",
             [header_val_hash |-> header.validators_hash,
              expected_val_hash |-> SetHash(vals)])
    ELSE IF /\ possible_next_vals # None
            /\ header.next_validators_hash # SetHash(possible_next_vals[1])
    THEN Err("InvalidNextValidatorSet",
             [header_next_val_hash |-> header.next_validators_hash,
              expected_next_val_hash |-> SetHash(possible_next_vals[1])])
    ELSE IF HeaderHash(header) # header_hash(commit)
    THEN Err("InvalidCommitValue",
             [header_hash |-> HeaderHash(header),
              commit_hash |-> header_hash(commit)])
    ELSE commit_validate(commit, vals)

\* verify_commit_full: +2/3 of vals signed the commit
verify_commit_full(vals, header, commit) ==
    LET total == total_power(vals)
        signed == voting_power_in(commit, vals)
    IN IF ~IsOk(signed) THEN signed
       ELSE IF u64(signed.info * 3) <= u64(total * 2)
       THEN Err("InvalidCommit", [total |-> total, signed |-> signed.info])
       ELSE Ok("unit")

\* the skipping arm of the match of verify_single_inner, with the power
\* counted in counted_vals
skipping_arm(trusted_state, untrusted_sh, counted_vals, trust_threshold) ==
    LET trusted_validators == trusted_state.validators
        minimum_trusted_voting_power_required ==
            minimum_power_to_be_trusted(trust_threshold,
                                        total_power(trusted_validators))
        signed_power == voting_power_in(untrusted_sh.commit, counted_vals)
    IN IF ~IsOk(signed_power) THEN signed_power
       ELSE IF signed_power.info < minimum_trusted_voting_power_required
       THEN Err("InsufficientSignedVotingPower",
                [total |-> total_power(trusted_validators),
                 signed |-> signed_power.info,
                 trust_threshold |-> trust_threshold])
       ELSE Ok("unit")

\* the sequential arm of the match of verify_single_inner
sequential_arm(trusted_state, untrusted_sh) ==
    LET trusted_vals_hash == trusted_state.last_header.header.next_validators_hash
        untrusted_vals_hash == untrusted_sh.header.validators_hash
    IN IF trusted_vals_hash # untrusted_vals_hash
       THEN Err("InvalidValidatorSet",
                [header_val_hash |-> untrusted_vals_hash,
                 expected_val_hash |-> trusted_vals_hash])
       ELSE Ok("unit")

\* the match with the skipping power counted in all of untrusted_vals
height_dispatch_no_intersect(trusted_state, untrusted_sh, untrusted_vals, trust_threshold) ==
    LET trusted_height == trusted_state.last_header.header.height
        untrusted_height == untrusted_sh.header.height
    IN IF untrusted_height < trusted_height + 1
       THEN Err("NonIncreasingHeight",
                [got |-> untrusted_height, expected |-> trusted_height + 1])
       ELSE IF untrusted_height = trusted_height + 1
       THEN sequential_arm(trusted_state, untrusted_sh)
       ELSE skipping_arm(trusted_state, untrusted_sh, untrusted_vals, trust_threshold)

\* the match with the trust threshold applied to the next height too
height_dispatch_gate_always(trusted_state, untrusted_sh, untrusted_vals, trust_threshold) ==
    LET trusted_height == trusted_state.last_header.header.height
        untrusted_height == untrusted_sh.header.height
        sequential == sequential_arm(trusted_state, untrusted_sh)
    IN IF untrusted_height < trusted_height + 1
       THEN Err("NonIncreasingHeight",
                [got |-> untrusted_height, expected |-> trusted_height + 1])
       ELSE IF untrusted_height = trusted_height + 1 /\ ~IsOk(sequential)
       THEN sequential
       ELSE skipping_arm(trusted_state, untrusted_sh,
                         intersect(trusted_state.validators, untrusted_vals),
                         trust_threshold)

\* the match reporting the trusted height as the expected one
height_dispatch_expected_off(trusted_state, untrusted_sh, untrusted_vals, trust_threshold) ==
    LET trusted_height == trusted_state.last_header.header.height
        untrusted_height == untrusted_sh.header.height
    IN IF untrusted_height < trusted_height + 1
       THEN Err("NonIncreasingHeight",
                [got |-> untrusted_height, expected |-> trusted_height])
       ELSE IF untrusted_height = trusted_height + 1
       THEN sequential_arm(trusted_state, untrusted_sh)
       ELSE skipping_arm(trusted_state, untrusted_sh,
                         intersect(trusted_state.validators, untrusted_vals),
                         trust_threshold)

\* the match on untrusted_height.cmp(trusted_height + 1) of verify_single_inner
height_dispatch(trusted_state, untrusted_sh, untrusted_vals, trust_threshold) ==
    LET trusted_header == trusted_state.last_header.header
        trusted_height == trusted_header.height
        untrusted_height == untrusted_sh.header.height
    IN IF untrusted_height < trusted_height + 1
       THEN Err("NonIncreasingHeight",
                [got |-> untrusted_height, expected |-> trusted_height + 1])
       ELSE IF untrusted_height = trusted_height + 1
       THEN sequential_arm(trusted_state, untrusted_sh)
       ELSE LET trusted_validators == trusted_state.validators
                common_vals == intersect(trusted_validators, untrusted_vals)
            IN skipping_arm(trusted_state, untrusted_sh, common_vals, trust_threshold)

\* verify_single_inner accepting a header with the trusted header's time
verify_single_inner_time_eq(trusted_state, untrusted_sh, untrusted_vals, untrusted_next_vals, trust_threshold) ==
    LET untrusted_header == untrusted_sh.header
        untrusted_commit == untrusted_sh.commit
        trusted_header == trusted_state.last_header.header
        validated == validate(untrusted_header, untrusted_commit, untrusted_vals,
                              Some(untrusted_next_vals))
        dispatched == height_dispatch(trusted_state, untrusted_sh, untrusted_vals,
                                      trust_threshold)
    IN IF ~IsOk(validated) THEN validated
       ELSE IF untrusted_header.time < trusted_header.time
       THEN Err("NonIncreasingTime", "unit")
       ELSE IF ~IsOk(dispatched) THEN dispatched
       ELSE verify_commit_full(untrusted_vals, untrusted_header, untrusted_commit)

\* verify_single_inner without the comparison of the header times
verify_single_inner_untimed(trusted_state, untrusted_sh, untrusted_vals, untrusted_next_vals, trust_threshold) ==
    LET untrusted_header == untrusted_sh.header
        untrusted_commit == untrusted_sh.commit
        validated == validate(untrusted_header, untrusted_commit, untrusted_vals,
                              Some(untrusted_next_vals))
        dispatched == height_dispatch(trusted_state, untrusted_sh, untrusted_vals,
                                      trust_threshold)
    IN IF ~IsOk(validated) THEN validated
       ELSE IF ~IsOk(dispatched) THEN dispatched
       ELSE verify_commit_full(untrusted_vals, untrusted_header, untrusted_commit)

\* verify_single_inner verifying the commit in full before the heights
verify_single_inner_commit_first(trusted_state, untrusted_sh, untrusted_vals, untrusted_next_vals, trust_threshold) ==
    LET untrusted_header == untrusted_sh.header
        untrusted_commit == untrusted_sh.commit
        trusted_header == trusted_state.last_header.header
        validated == validate(untrusted_header, untrusted_commit, untrusted_vals,
                              Some(untrusted_next_vals))
        dispatched == height_dispatch(trusted_state, untrusted_sh, untrusted_vals,
                                      trust_threshold)
        committed == verify_commit_full(untrusted_vals, untrusted_header,
                                        untrusted_commit)
    IN IF ~IsOk(validated) THEN validated
       ELSE IF untrusted_header.time <= trusted_header.time
       THEN Err("NonIncreasingTime", "unit")
       ELSE IF ~IsOk(committed) THEN committed
       ELSE dispatched

\* verify_single_inner
verify_single_inner(trusted_state, untrusted_sh, untrusted_vals, untrusted_next_vals, trust_threshold) ==
    LET untrusted_header == untrusted_sh.header
        untrusted_commit == untrusted_sh.commit
        trusted_header == trusted_state.last_header.header
        validated == validate(untrusted_header, untrusted_commit, untrusted_vals,
                              Some(untrusted_next_vals))
        dispatched == height_dispatch(trusted_state, untrusted_sh, untrusted_vals,
                                      trust_threshold)
    IN IF ~IsOk(validated) THEN validated
       ELSE IF untrusted_header.time <= trusted_header.time
       THEN Err("NonIncreasingTime", "unit")
       ELSE IF ~IsOk(dispatched) THEN dispatched
       ELSE verify_commit_full(untrusted_vals, untrusted_header, untrusted_commit)

\* verify_single returning the validators of the untrusted header itself
verify_single_returns_vals(trusted_state, untrusted_sh, untrusted_vals, untrusted_next_vals, trust_threshold, trusting_period, now) ==
    LET trusted_sh == trusted_state.last_header
        within == is_within_trust_period(trusted_sh.header, trusting_period, now)
        inner == verify_single_inner(trusted_state, untrusted_sh, untrusted_vals,
                                     untrusted_next_vals, trust_threshold)
    IN IF ~IsOk(within) THEN within
       ELSE IF ~IsOk(inner) THEN inner
       ELSE Ok(TrustedState_new(untrusted_sh, untrusted_vals))

\* verify_single
verify_single(trusted_state, untrusted_sh, untrusted_vals, untrusted_next_vals, trust_threshold, trusting_period, now) ==
    LET trusted_sh == trusted_state.last_header
        within == is_within_trust_period(trusted_sh.header, trusting_period, now)
        inner == verify_single_inner(trusted_state, untrusted_sh, untrusted_vals,
                                     untrusted_next_vals, trust_threshold)
    IN IF ~IsOk(within) THEN within
       ELSE IF ~IsOk(inner) THEN inner
       ELSE Ok(TrustedState_new(untrusted_sh, untrusted_next_vals))

\* validate_initial_signed_header_and_valset
validate_initial_signed_header_and_valset(untrusted_sh, untrusted_vals) ==
    LET header == untrusted_sh.header
        commit == untrusted_sh.commit
        validated == validate(header, commit, untrusted_vals, None)
    IN IF ~IsOk(validated) THEN validated
       ELSE verify_commit_full(untrusted_vals, header, commit)

(***************************************************************************)
(* The caller: a store holding the trusted state, which calls              *)
(* verify_single on headers it is handed and replaces its trusted state by *)
(* the state a successful call returns.                                    *)
(***************************************************************************)
VARIABLES
    trusted,    \* the store's TrustedState
    updates,    \* how many times the store replaced its trusted state
    call,       \* the arguments of the call of verify_single under way
    result      \* what the call returned

vars == <<trusted, updates, call, result>>

\* a header of the chain
Header(height, time, validators_hash, next_validators_hash) ==
    [chain_id |-> ChainId, height |-> height, time |-> time,
     validators_hash |-> validators_hash,
     next_validators_hash |-> next_validators_hash]

\* the signature of the validator with key pk over a precommit for block_id
\* (Some(id), or None for nil) at this height and round
Sign(pk, height, round, block_id) ==
    [key |-> pk,
     msg |-> sign_bytes([height |-> height, round |-> round,
                         block_id |-> block_id, timestamp |-> 0], ChainId)]

\* CommitSig variants
Absent == [flag |-> "BlockIDFlagAbsent"]
CommitSig(flag, address, signature) ==
    [flag |-> flag, validator_address |-> address, timestamp |-> 0,
     signature |-> signature]

\* the entries a commit of this height for block_id may hold at the place of
\* validator v: absent, v's precommit for the block, v's precommit for nil,
\* and v's signature for nil passed off as a precommit for the block
SigChoices(v, height, block_id) ==
    { Absent,
      CommitSig("BlockIDFlagCommit", v.address,
                Sign(v.pub_key, height, 0, Some(block_id))),
      CommitSig("BlockIDFlagNil", v.address, Sign(v.pub_key, height, 0, None)),
      CommitSig("BlockIDFlagCommit", v.address, Sign(v.pub_key, height, 0, None)) }

\* the signature lists of a commit made by the first n validators of
\* signers, one entry at the place of each
RECURSIVE SignatureListsUpto(_, _, _, _)
SignatureListsUpto(signers, n, height, block_id) ==
    IF n = 0 THEN {<<>>}
    ELSE { Append(sigs, entry) :
             sigs \in SignatureListsUpto(signers, n - 1, height, block_id),
             entry \in SigChoices(signers.validators[n], height, block_id) }

SignatureLists(signers, height, block_id) ==
    SignatureListsUpto(signers, Len(signers.validators), height, block_id)

\* the validator sets handed to the verifier: any validators with distinct
\* addresses, through Set::new; the last address alone may hold the power
\* of half the range of the word
ValSets ==
    { SetNew(seq_of({Info(a, pw[a]) : a \in S})) :
        pw \in {f \in [Addrs -> Powers] :
                  \A a \in Addrs : f[a] > MaxPower => a = NumAddrs},
        S \in SUBSET Addrs }

\* LightSignedHeader wrapped as SignedHeader<LightSignedHeader, LightHeader>
\* (convert_to_signed_header)
SignedHeader(header, block_hash, signatures) ==
    LET lsh == [header |-> header,
                commit |-> [height |-> header.height, round |-> 0,
                            block_id |-> [hash |-> block_hash],
                            signatures |-> signatures]]
    IN [commit |-> lsh, header |-> header]

\* the signature list in which every validator of vals precommits block_id
FullSignatures(vals, height, block_id) ==
    [i \in 1..Len(vals.validators) |->
        CommitSig("BlockIDFlagCommit", vals.validators[i].address,
                  Sign(vals.validators[i].pub_key, height, 0, Some(block_id)))]

\* a block committed by all of its validators
FullCommit(header, vals) ==
    SignedHeader(header, HeaderHash(header),
                 FullSignatures(vals, header.height, [hash |-> HeaderHash(header)]))

\* the trust thresholds: fractions TrustThresholdFraction::new accepts
Thresholds ==
    { TrustThresholdFraction_new(n, d).info :
        <<n, d>> \in {<<1, 3>>, <<2, 3>>, <<1, 1>>} }

\* the validator sets of the bootstrapped states: the validators 1..k for
\* k >= 2, the first of any power and the others of power 1
InitialValSets ==
    { SetNew([a \in 1..k |-> Info(a, IF a = 1 THEN p ELSE 1)]) :
        k \in 2..NumAddrs, p \in 1..MaxPower }

\* the height and time of the header the store is bootstrapped with
InitialHeight == MaxHeight - 2
InitialTime == 1

\* the trusted states the store is bootstrapped with: a signed header that
\* validate_initial_signed_header_and_valset accepts, with its validators
InitialStates ==
    { ts \in { TrustedState_new(FullCommit(Header(InitialHeight, InitialTime,
                                                  SetHash(vals), SetHash(vals)),
                                           vals), vals) :
                 vals \in InitialValSets } :
        IsOk(validate_initial_signed_header_and_valset(ts.last_header, ts.validators)) }

NoCall == [made |-> FALSE]
NoResult == [kind |-> "NoResult", info |-> "unit"]

Init ==
    /\ trusted \in InitialStates
    /\ updates = 0
    /\ call = NoCall
    /\ result = NoResult

\* a call of verify_single by the store, with its trusted state
Call(sh, vals, next_vals, trust_threshold, trusting_period, now) ==
    /\ call' = [made |-> TRUE, trusted_state |-> trusted, untrusted_sh |-> sh,
                untrusted_vals |-> vals, untrusted_next_vals |-> next_vals,
                trust_threshold |-> trust_threshold,
                trusting_period |-> trusting_period, now |-> now]
    /\ result' = verify_single(trusted, sh, vals, next_vals, trust_threshold,
                               trusting_period, now)
    /\ UNCHANGED <<trusted, updates>>

\* the store is handed an untrusted header with validator sets and calls
\* verify_single with its trusted state.  The calls are of two families:
\* any header and validator sets, within the trusting period and with a
\* header later than the trusted one; and any clock, trusting period,
\* height and time, with a header over the trusted validators that all of
\* them signed
VerifySingle ==
    /\ ~call.made
    /\ updates < SyncDepth
    /\ \/ \* a later header of one of the next two heights, consistent with
          \* the validator sets handed over, with any commit
          \E vals \in ValSets, th \in Thresholds :
          \E next_vals \in {vals, trusted.validators},
             signers \in {vals, trusted.validators} :
          LET tt == trusted.last_header.header.time
              th_ == trusted.last_header.header.height
          IN \E height \in {th_ + 1, th_ + 2} :
             LET header == Header(height, tt + 1, SetHash(vals), SetHash(next_vals))
                 block_hash == HeaderHash(header)
             IN \E signatures \in SignatureLists(signers, height,
                                                 [hash |-> block_hash]) :
                   Call(SignedHeader(header, block_hash, signatures), vals,
                        next_vals, th, MaxPeriod, tt)
       \/ \* a fully signed header of any height and time, at any time
          \E height \in Heights, time \in Times, th \in Thresholds,
             period \in Periods, now \in Times,
             next_vals \in {trusted.validators, SetNew(<<>>)} :
          LET vals == trusted.validators
          IN \E vh \in {SetHash(vals), SetHash(next_vals)},
                nvh \in {SetHash(vals), SetHash(next_vals)},
                signers \in {vals, next_vals}, own \in BOOLEAN :
             LET header == Header(height, time, vh, nvh)
                 block_hash == IF own THEN HeaderHash(header)
                               ELSE HeaderHash(trusted.last_header.header)
             IN Call(SignedHeader(header, block_hash,
                        FullSignatures(signers, height, [hash |-> block_hash])),
                     vals, next_vals, th, period, now)

\* a caller that takes over the untrusted state whatever the call returned
UpdateStoreAlways ==
    /\ call.made
    /\ trusted' = TrustedState_new(call.untrusted_sh, call.untrusted_next_vals)
    /\ updates' = updates + 1
    /\ call' = NoCall
    /\ result' = NoResult

\* the caller replaces the trusted state by the one a successful call
\* returned, and keeps it otherwise
UpdateStore ==
    /\ call.made
    /\ trusted' = IF IsOk(result) THEN result.info ELSE trusted
    /\ updates' = IF IsOk(result) THEN updates + 1 ELSE updates
    /\ call' = NoCall
    /\ result' = NoResult

Next == VerifySingle \/ UpdateStore

Spec == Init /\ [][Next]_vars

(***************************************************************************)
(* A store following the chain: it is handed headers of its own and of the *)
(* next two heights, over validator sets of unit power, committed by all   *)
(* of their validators or by all but the first, one second after the       *)
(* header it trusts, and goes on from each state a successful call         *)
(* returned.  A                                                            *)
(* header may name validators other than the next ones handed over, or     *)
(* come with a commit for another block.                                   *)
(***************************************************************************)
ChainValSets ==
    { SetNew(seq_of({Info(a, 1) : a \in S})) :
        S \in {A \in SUBSET Addrs : Cardinality(A) >= NumAddrs - 1} }

\* the signature list of vals in which the first validator is absent
AllButFirst(vals, height, block_id) ==
    [i \in 1..Len(vals.validators) |->
        IF i = 1 THEN Absent
        ELSE FullSignatures(vals, height, block_id)[i]]

VerifyNext ==
    /\ ~call.made
    /\ updates < ChainDepth
    /\ LET tt == trusted.last_header.header.time
           th_ == trusted.last_header.header.height
       IN \E vals \in {trusted.validators} \cup ChainValSets,
             next_vals \in ChainValSets,
             height \in {th_, th_ + 1, th_ + 2}, time \in {tt, tt + 1},
             all \in BOOLEAN, fault \in {"none", "next_vals", "commit"} :
          LET header == Header(height, time, SetHash(vals),
                               IF fault = "next_vals" THEN SetHash(vals)
                               ELSE SetHash(next_vals))
              block_id == [hash |-> IF fault = "commit"
                                    THEN HeaderHash(trusted.last_header.header)
                                    ELSE HeaderHash(header)]
              signatures == IF all THEN FullSignatures(vals, height, block_id)
                            ELSE AllButFirst(vals, height, block_id)
          IN Call(SignedHeader(header, block_id.hash, signatures), vals,
                  next_vals, TrustThresholdFraction_default, MaxPeriod, tt + 1)

ChainNext == VerifyNext \/ UpdateStore

SpecChain == Init /\ [][ChainNext]_vars

(***************************************************************************)
(* The trust threshold on its own: TrustThresholdFraction::new on any two  *)
(* u64 values, and minimum_power_to_be_trusted and is_enough_power of any  *)
(* threshold that new returned, on any u64 powers.                         *)
(***************************************************************************)
U64Values == 0..(U64Modulus - 1)

\* the thresholds that TrustThresholdFraction::new returns
AllThresholds ==
    { TrustThresholdFraction_new(n, d).info :
        <<n, d>> \in { nd \in U64Values \X U64Values :
                         IsOk(TrustThresholdFraction_new(nd[1], nd[2])) } }

New ==
    /\ ~call.made
    /\ \E numerator \in U64Values, denominator \in U64Values :
          /\ call' = [made |-> TRUE, op |-> "new",
                      numerator |-> numerator, denominator |-> denominator]
          /\ result' = TrustThresholdFraction_new(numerator, denominator)
    /\ UNCHANGED <<trusted, updates>>

MinimumPowerToBeTrusted ==
    /\ ~call.made
    /\ \E self \in AllThresholds, total_voting_power \in U64Values :
          /\ call' = [made |-> TRUE, op |-> "minimum_power_to_be_trusted",
                      self |-> self, total_voting_power |-> total_voting_power]
          /\ result' = Ok(minimum_power_to_be_trusted(self, total_voting_power))
    /\ UNCHANGED <<trusted, updates>>

IsEnoughPower ==
    /\ ~call.made
    /\ \E self \in AllThresholds, signed_voting_power \in U64Values,
          total_voting_power \in U64Values :
          /\ call' = [made |-> TRUE, op |-> "is_enough_power", self |-> self,
                      signed_voting_power |-> signed_voting_power,
                      total_voting_power |-> total_voting_power]
          /\ result' = Ok(is_enough_power(self, signed_voting_power,
                                          total_voting_power))
    /\ UNCHANGED <<trusted, updates>>

\* the call returns to its caller
Return ==
    /\ call.made
    /\ call' = NoCall
    /\ result' = NoResult
    /\ UNCHANGED <<trusted, updates>>

ThresholdNext == New \/ MinimumPowerToBeTrusted \/ IsEnoughPower \/ Return

SpecThreshold == Init /\ [][ThresholdNext]_vars

(***************************************************************************)
(* The analysis of a commit on its own: voting_power_in of a signed header *)
(* whose commit holds any list of entries, of validators in the set and    *)
(* not in it, several of one validator included, against validator sets    *)
(* whose powers may add up beyond the u64 range.                           *)
(***************************************************************************)
\* validator sets over all the addresses or all but one, each power 1 or half
\* the range
CommitValSets ==
    { SetNew(seq_of({Info(a, pw[a]) : a \in S})) :
        pw \in [Addrs -> {1, U64Modulus \div 2}],
        S \in {A \in SUBSET Addrs : Cardinality(A) >= NumAddrs - 1} }

\* the entries a commit for block_id may hold, of any address
CommitEntries(height, block_id) ==
    UNION { SigChoices(Info(a, 1), height, block_id) : a \in Addrs }

\* the header that the commits of this specification are for
CommitHeader(vals) ==
    Header(InitialHeight, InitialTime, SetHash(vals), SetHash(vals))

VotingPowerIn ==
    /\ ~call.made
    /\ \E validators \in CommitValSets, n \in 0..(NumAddrs + 1) :
          LET header == CommitHeader(validators)
              block_hash == HeaderHash(header)
          IN \E signatures \in [1..n -> CommitEntries(header.height,
                                                      [hash |-> block_hash])] :
                LET self == SignedHeader(header, block_hash, signatures).commit
                IN /\ call' = [made |-> TRUE, op |-> "voting_power_in",
                               self |-> self, validators |-> validators]
                   /\ result' = voting_power_in(self, validators)
    /\ UNCHANGED <<trusted, updates>>

CommitNext == VotingPowerIn \/ Return

SpecCommit == Init /\ [][CommitNext]_vars

(***************************************************************************)
(* Validator sets on their own: Set::new on any vector of validators, of   *)
(* repeated addresses included, and hash, total_power and intersect on the *)
(* sets that Set::new returns.                                             *)
(***************************************************************************)
\* the validators a vector may hold: any address, power 1 or half the range
Validators == { Info(a, p) : a \in Addrs, p \in {1, U64Modulus \div 2} }

\* the vectors handed to Set::new
Vectors == UNION { [1..n -> Validators] : n \in 0..NumAddrs }

\* the sets Set::new returns
BuiltSets == { SetNew(vs) : vs \in Vectors }

\* the orders in which a HashMap holding the values S may drain them
Drains(S) ==
    { order \in [1..Cardinality(S) -> S] :
        \A i, j \in 1..Cardinality(S) : order[i] = order[j] => i = j }

\* the values left in left_hashmap after retain
retained(self, other) ==
    LET left_hashmap == hashmap_by_address(self)
        right_hashmap == hashmap_by_address(other)
    IN { left_hashmap[a] : a \in DOMAIN left_hashmap \cap DOMAIN right_hashmap }

NewSet ==
    /\ ~call.made
    /\ \E vals \in Vectors :
          /\ call' = [made |-> TRUE, op |-> "new", vals |-> vals]
          /\ result' = Ok(SetNew(vals))
    /\ UNCHANGED <<trusted, updates>>

Hash ==
    /\ ~call.made
    /\ \E vals \in Vectors :
          /\ call' = [made |-> TRUE, op |-> "hash", vals |-> vals]
          /\ result' = Ok(SetHash(SetNew(vals)))
    /\ UNCHANGED <<trusted, updates>>

TotalPower ==
    /\ ~call.made
    /\ \E self \in BuiltSets :
          /\ call' = [made |-> TRUE, op |-> "total_power", self |-> self]
          /\ result' = Ok(total_power(self))
    /\ UNCHANGED <<trusted, updates>>

Intersect ==
    /\ ~call.made
    /\ \E self \in BuiltSets, other \in BuiltSets :
       \E order \in Drains(retained(self, other)) :
          /\ call' = [made |-> TRUE, op |-> "intersect", self |-> self,
                      other |-> other, order |-> order]
          /\ result' = Ok(SetNew(order))
    /\ UNCHANGED <<trusted, updates>>

SetNext == NewSet \/ Hash \/ TotalPower \/ Intersect \/ Return

SpecSet == Init /\ [][SetNext]_vars

(***************************************************************************)
(* The bootstrap on its own: validate_initial_signed_header_and_valset on  *)
(* a signed header of any height and time, naming the validators handed    *)
(* over or others, with a commit for its own block or for another one,     *)
(* signed in any way by those validators or by the trusted ones.           *)
(***************************************************************************)
ValidateInitial ==
    /\ ~call.made
    /\ \E untrusted_vals \in ValSets, height \in Heights, time \in Times,
          names \in BOOLEAN, own \in BOOLEAN :
       \E signers \in {untrusted_vals, trusted.validators} :
          LET header == Header(height, time,
                               IF names THEN SetHash(untrusted_vals)
                               ELSE SetHash(trusted.validators),
                               SetHash(untrusted_vals))
              block_hash == IF own THEN HeaderHash(header)
                            ELSE HeaderHash(trusted.last_header.header)
          IN \E signatures \in SignatureLists(signers, height,
                                              [hash |-> block_hash]) :
                LET untrusted_sh == SignedHeader(header, block_hash, signatures)
                IN /\ call' = [made |-> TRUE,
                               op |-> "validate_initial_signed_header_and_valset",
                               untrusted_sh |-> untrusted_sh,
                               untrusted_vals |-> untrusted_vals]
                   /\ result' = validate_initial_signed_header_and_valset(
                                    untrusted_sh, untrusted_vals)
    /\ UNCHANGED <<trusted, updates>>

InitialNext == ValidateInitial \/ Return

SpecInitial == Init /\ [][InitialNext]_vars

(***************************************************************************)
(* The Merkle tree of merkle_tree.rs.  A SHA-256 digest is the tagged      *)
(* tuple of what was hashed; a panic is a result of kind "panic".          *)
(***************************************************************************)
HASH_SIZE == 32

\* usize::next_power_of_two: the least power of two that is >= n
RECURSIVE next_power_of_two(_)
next_power_of_two(n) ==
    IF n <= 1 THEN 1 ELSE 2 * next_power_of_two((n + 1) \div 2)

\* get_split_point with a quarter of the next power of two
get_split_point_quarter(length) ==
    IF length = 0 THEN Err("panic", "tree is empty!")
    ELSE IF length = 1 THEN Err("panic", "tree has only one element!")
    ELSE IF length = 2 THEN Ok(1)
    ELSE Ok(next_power_of_two(length) \div 4)

\* get_split_point
get_split_point(length) ==
    IF length = 0 THEN Err("panic", "tree is empty!")
    ELSE IF length = 1 THEN Err("panic", "tree has only one element!")
    ELSE IF length = 2 THEN Ok(1)
    ELSE Ok(next_power_of_two(length) \div 2)

\* tmhash(0x00 || leaf)
leaf_hash(bytes) == <<"Sha256", <<0>> \o bytes>>

\* tmhash(0x01 || left || right)
inner_hash(left, right) == <<"Sha256", <<1, left, right>>>>

\* simple_hash_from_byte_slices_inner; a panic of a callee unwinds through it
RECURSIVE simple_hash_from_byte_slices_inner(_)
simple_hash_from_byte_slices_inner(byte_slices) ==
    LET length == Len(byte_slices)
    IN IF length = 0 THEN Ok([i \in 1..HASH_SIZE |-> 0])
       ELSE IF length = 1 THEN Ok(leaf_hash(byte_slices[1]))
       ELSE LET k == get_split_point(length)
            IN IF ~IsOk(k) THEN k
               ELSE LET left == simple_hash_from_byte_slices_inner(
                                    SubSeq(byte_slices, 1, k.info))
                        right == simple_hash_from_byte_slices_inner(
                                    SubSeq(byte_slices, k.info + 1, length))
                    IN IF ~IsOk(left) THEN left
                       ELSE IF ~IsOk(right) THEN right
                       ELSE Ok(inner_hash(left.info, right.info))

simple_hash_from_byte_vectors(byte_vecs) ==
    simple_hash_from_byte_slices_inner(byte_vecs)

\* the byte vectors at the leaves
Leaves == {<<0>>, <<1>>}

GetSplitPoint ==
    /\ ~call.made
    /\ \E length \in 0..MaxLeaves :
          /\ call' = [made |-> TRUE, op |-> "get_split_point", length |-> length]
          /\ result' = get_split_point(length)
    /\ UNCHANGED <<trusted, updates>>

SimpleHash ==
    /\ ~call.made
    /\ \E n \in 0..MaxLeaves :
       \E byte_vecs \in [1..n -> Leaves] :
          /\ call' = [made |-> TRUE, op |-> "simple_hash_from_byte_vectors",
                      byte_vecs |-> byte_vecs]
          /\ result' = simple_hash_from_byte_vectors(byte_vecs)
    /\ UNCHANGED <<trusted, updates>>

MerkleNext == GetSplitPoint \/ SimpleHash \/ Return

SpecMerkle == Init /\ [][MerkleNext]_vars

(***************************************************************************)
(* A store handed headers whose commits hold any entries: of validators in *)
(* the set and not in it, of one validator more than once, for the block   *)
(* and for nil, with signatures that verify and that do not.  The headers  *)
(* are later and higher than the trusted one and consistent with the       *)
(* validator sets handed over.                                             *)
(***************************************************************************)
VerifyCommit ==
    /\ ~call.made
    /\ updates < SyncDepth
    /\ LET tt == trusted.last_header.header.time
           th_ == trusted.last_header.header.height
       IN \E vals \in {trusted.validators} \cup ChainValSets,
             height \in {th_ + 1, th_ + 2}, n \in 1..NumAddrs :
          LET header == Header(height, tt + 1, SetHash(vals), SetHash(vals))
              block_hash == HeaderHash(header)
          IN \E signatures \in [1..n -> CommitEntries(height, [hash |-> block_hash])] :
                Call(SignedHeader(header, block_hash, signatures), vals, vals,
                     TrustThresholdFraction_default, MaxPeriod, tt)

CommittedNext == VerifyCommit \/ UpdateStore

SpecCommitted == Init /\ [][CommittedNext]_vars

(***************************************************************************)
(* A store that asks for all of the trusted power: the trust threshold is  *)
(* a fraction equal to 1.  It is bootstrapped with any validator set that  *)
(* validate_initial_signed_header_and_valset accepts, of powers up to half *)
(* the range, and is handed higher headers over that set or over the set   *)
(* of all addresses, signed in any way by their validators.                *)
(***************************************************************************)
\* the thresholds n/n
UnanimousThresholds ==
    { TrustThresholdFraction_new(n, n).info : n \in 1..MaxPower }

UnanimousStates ==
    { ts \in { TrustedState_new(FullCommit(Header(InitialHeight, InitialTime,
                                                  SetHash(vals), SetHash(vals)),
                                           vals), vals) :
                 vals \in ValSets } :
        IsOk(validate_initial_signed_header_and_valset(ts.last_header, ts.validators)) }

UnanimousInit ==
    /\ trusted \in UnanimousStates
    /\ updates = 0
    /\ call = NoCall
    /\ result = NoResult

VerifyUnanimous ==
    /\ ~call.made
    /\ updates < SyncDepth
    /\ LET tt == trusted.last_header.header.time
           th_ == trusted.last_header.header.height
       IN \E vals \in {trusted.validators, SetNew([a \in Addrs |-> Info(a, 1)])},
             height \in {th_ + 1, th_ + 2}, th \in UnanimousThresholds :
          LET header == Header(height, tt + 1, SetHash(vals), SetHash(vals))
              block_hash == HeaderHash(header)
          IN \E signatures \in SignatureLists(vals, height, [hash |-> block_hash]) :
                Call(SignedHeader(header, block_hash, signatures), vals, vals,
                     th, MaxPeriod, tt)

UnanimousNext == VerifyUnanimous \/ UpdateStore

SpecUnanimous == UnanimousInit /\ [][UnanimousNext]_vars

(***************************************************************************)
(* The call under way, and the verdict of each check of verify_single on   *)
(* it taken alone.                                                         *)
(***************************************************************************)
TrustedHeader == call.trusted_state.last_header.header
TrustedVals == call.trusted_state.validators
UntrustedHeader == call.untrusted_sh.header
UntrustedCommit == call.untrusted_sh.commit
UntrustedVals == call.untrusted_vals
UntrustedNextVals == call.untrusted_next_vals

Returned(kind) == call.made /\ result.kind = kind

ExpiresAt == TrustedHeader.time + call.trusting_period
NotExpired == ExpiresAt > call.now
NotFromFuture == TrustedHeader.time <= call.now
ValsHashOk == UntrustedHeader.validators_hash = SetHash(UntrustedVals)
NextValsHashOk == UntrustedHeader.next_validators_hash = SetHash(UntrustedNextVals)
CommitHashOk == HeaderHash(UntrustedHeader) = header_hash(UntrustedCommit)
CommitValid == IsOk(commit_validate(UntrustedCommit, UntrustedVals))
\* the trusted state has not expired and the untrusted header is consistent
\* with its commit and the validator sets
SelfConsistent ==
    /\ NotExpired /\ NotFromFuture
    /\ ValsHashOk /\ NextValsHashOk /\ CommitHashOk /\ CommitValid
TimeIncreases == UntrustedHeader.time > TrustedHeader.time
Sequential == UntrustedHeader.height = TrustedHeader.height + 1
Skipping == UntrustedHeader.height > TrustedHeader.height + 1
SequentialHashOk == TrustedHeader.next_validators_hash = UntrustedHeader.validators_hash
\* the power of the commit counted in the validators common to the trusted
\* and the untrusted set, and the least power the threshold asks for
CommonPower == voting_power_in(UntrustedCommit, intersect(TrustedVals, UntrustedVals))
MinimumPower == minimum_power_to_be_trusted(call.trust_threshold, total_power(TrustedVals))
\* the power of the commit counted in the untrusted set
FullPower == voting_power_in(UntrustedCommit, UntrustedVals)
\* the verdict of the +2/3 check
FullCommitOk ==
    IsOk(verify_commit_full(UntrustedVals, UntrustedHeader, UntrustedCommit))
\* every check before the last one passes
PassesDispatch ==
    /\ SelfConsistent /\ TimeIncreases
    /\ \/ Sequential /\ SequentialHashOk
       \/ Skipping /\ IsOk(CommonPower) /\ CommonPower.info >= MinimumPower

(***************************************************************************)
(* C1: a successful verify_single returns the trusted state made of the    *)
(* untrusted signed header and the untrusted next validators.              *)
(***************************************************************************)
C1_ReturnsUntrustedHeaderAndNextVals ==
    Returned("Ok") =>
        /\ result.info.last_header = call.untrusted_sh
        /\ result.info.validators = call.untrusted_next_vals

\* a success whose next validators are neither the untrusted validators nor
\* the trusted ones
C1_Witness ==
    /\ Returned("Ok")
    /\ UntrustedNextVals # UntrustedVals
    /\ UntrustedNextVals # TrustedVals
    /\ result.info.validators = UntrustedNextVals

(***************************************************************************)
(* C2: verify_single succeeds only if 3 * signed > 2 * total for the power *)
(* of the commit counted in the untrusted validators; when every earlier   *)
(* check passes and 3 * signed <= 2 * total it fails with InvalidCommit    *)
(* carrying that total and signed power.  The products are those of the    *)
(* integers; the code compares them after they wrapped around.             *)
(***************************************************************************)
C2_StrictTwoThirds ==
    /\ Returned("Ok") =>
          /\ IsOk(FullPower)
          /\ 3 * FullPower.info > 2 * total_power(UntrustedVals)
    /\ (call.made /\ PassesDispatch /\ IsOk(FullPower)
          /\ 3 * FullPower.info <= 2 * total_power(UntrustedVals)) =>
          /\ result.kind = "InvalidCommit"
          /\ result.info = [total |-> total_power(UntrustedVals),
                            signed |-> FullPower.info]

(***************************************************************************)
(* C3: in skipping mode verify_single succeeds only if the power of the    *)
(* commit counted in the validators common to the trusted and the          *)
(* untrusted set reaches the threshold's minimum for the trusted total;    *)
(* below it, all earlier checks passing, it fails with                     *)
(* InsufficientSignedVotingPower reporting the trusted total and the       *)
(* signed power.  With unit powers and threshold 2/3, a skip from T to U   *)
(* signed by S succeeds iff |S \cap T \cap U| >= floor(2|T|/3) + 1 and     *)
(* 3|S \cap U| > 2|U|.                                                     *)
(***************************************************************************)
AddressesOf(set) == {set.validators[i].address : i \in 1..Len(set.validators)}
UnitPowers(set) == \A i \in 1..Len(set.validators) : set.validators[i].voting_power = 1
\* every entry of the commit is absent or a validator's precommit for the block
SignedForBlock ==
    LET sigs == UntrustedCommit.commit.signatures
    IN \A i \in 1..Len(sigs) :
          sigs[i].flag # "BlockIDFlagAbsent" =>
             /\ sigs[i].flag = "BlockIDFlagCommit"
             /\ sigs[i].signature =
                   Sign(sigs[i].validator_address, UntrustedCommit.commit.height,
                        UntrustedCommit.commit.round, Some(UntrustedCommit.commit.block_id))
Signers ==
    LET sigs == UntrustedCommit.commit.signatures
    IN {sigs[i].validator_address :
          i \in {j \in 1..Len(sigs) : sigs[j].flag # "BlockIDFlagAbsent"}}

C3_SkippingTrustGate ==
    /\ (Returned("Ok") /\ Skipping) =>
          /\ IsOk(CommonPower)
          /\ CommonPower.info >= MinimumPower
    /\ (call.made /\ SelfConsistent /\ TimeIncreases /\ Skipping
          /\ IsOk(CommonPower) /\ CommonPower.info < MinimumPower) =>
          /\ result.kind = "InsufficientSignedVotingPower"
          /\ result.info.total = total_power(TrustedVals)
          /\ result.info.signed = CommonPower.info
    /\ (call.made /\ SelfConsistent /\ TimeIncreases /\ Skipping
          /\ UnitPowers(TrustedVals) /\ UnitPowers(UntrustedVals)
          /\ call.trust_threshold = [numerator |-> 2, denominator |-> 3]
          /\ SignedForBlock) =>
          LET T == AddressesOf(TrustedVals)
              U == AddressesOf(UntrustedVals)
              S == Signers
          IN IsOk(result) <=>
                /\ Cardinality(S \cap T \cap U) >= ((2 * Cardinality(T)) \div 3) + 1
                /\ 3 * Cardinality(S \cap U) > 2 * Cardinality(U)

\* a skip refused for want of trusted power although two thirds of the
\* untrusted validators signed
C3_Witness ==
    /\ Returned("InsufficientSignedVotingPower")
    /\ Skipping
    /\ result.info.signed > 0
    /\ FullCommitOk

(***************************************************************************)
(* C4: at the next height verify_single succeeds only if the trusted       *)
(* header's next_validators_hash is the untrusted header's validators_hash;*)
(* on a mismatch, all earlier checks passing, it fails with                *)
(* InvalidValidatorSet; the trust threshold and the overlap are not looked *)
(* at in this mode.                                                        *)
(***************************************************************************)
C4_SequentialBinding ==
    /\ (Returned("Ok") /\ Sequential) => SequentialHashOk
    /\ (call.made /\ SelfConsistent /\ TimeIncreases /\ Sequential
          /\ ~SequentialHashOk) =>
          /\ result.kind = "InvalidValidatorSet"
          /\ result.info =
                [header_val_hash |-> UntrustedHeader.validators_hash,
                 expected_val_hash |-> TrustedHeader.next_validators_hash]
    /\ (call.made /\ SelfConsistent /\ TimeIncreases /\ Sequential
          /\ SequentialHashOk) =>
          /\ result.kind # "InsufficientSignedVotingPower"
          /\ IsOk(result) <=> FullCommitOk
          /\ \A th \in Thresholds :
                verify_single(call.trusted_state, call.untrusted_sh,
                              call.untrusted_vals, call.untrusted_next_vals, th,
                              call.trusting_period, call.now).kind = result.kind

\* a header of the next height accepted although the common power is below
\* the threshold's minimum
C4_Witness ==
    /\ Returned("Ok")
    /\ Sequential
    /\ IsOk(CommonPower)
    /\ CommonPower.info < MinimumPower

C6_SelfConsistency ==
    /\ Returned("Ok") => (ValsHashOk /\ NextValsHashOk /\ CommitHashOk)
    /\ (call.made /\ NotExpired /\ NotFromFuture) =>
          /\ ~ValsHashOk =>
                /\ result.kind = "InvalidValidatorSet"
                /\ result.info =
                      [header_val_hash |-> UntrustedHeader.validators_hash,
                       expected_val_hash |-> SetHash(UntrustedVals)]
          /\ (ValsHashOk /\ ~NextValsHashOk) =>
                /\ result.kind = "InvalidNextValidatorSet"
                /\ result.info =
                      [header_next_val_hash |-> UntrustedHeader.next_validators_hash,
                       expected_next_val_hash |-> SetHash(UntrustedNextVals)]
          /\ (ValsHashOk /\ NextValsHashOk /\ ~CommitHashOk) =>
                /\ result.kind = "InvalidCommitValue"
                /\ result.info =
                      [header_hash |-> HeaderHash(UntrustedHeader),
                       commit_hash |-> header_hash(UntrustedCommit)]

\* a header with both a wrong next_validators_hash and a commit for another
\* header: the next validators are reported
C6_Witness ==
    /\ Returned("InvalidNextValidatorSet")
    /\ ValsHashOk /\ ~NextValsHashOk /\ ~CommitHashOk

(***************************************************************************)
(* C7: verify_single fails with NonIncreasingTime for every untrusted      *)
(* header whose time is at most the trusted header's, the expiry and       *)
(* self-consistency checks passing, in both modes and whatever the height. *)
(***************************************************************************)
C7_NonIncreasingTime ==
    /\ (call.made /\ SelfConsistent /\ ~TimeIncreases) =>
          result.kind = "NonIncreasingTime"
    /\ Returned("Ok") => TimeIncreases

\* a header with the trusted header's time, at a height below the trusted one
C7_Witness ==
    /\ Returned("NonIncreasingTime")
    /\ UntrustedHeader.time = TrustedHeader.time
    /\ UntrustedHeader.height < TrustedHeader.height

(***************************************************************************)
(* C8: verify_single fails with NonIncreasingHeight{got = untrusted        *)
(* height, expected = trusted height + 1} for every untrusted header whose *)
(* height is below trusted height + 1, all earlier checks passing.         *)
(***************************************************************************)
C8_NonIncreasingHeight ==
    /\ (call.made /\ SelfConsistent /\ TimeIncreases
          /\ UntrustedHeader.height < TrustedHeader.height + 1) =>
          /\ result.kind = "NonIncreasingHeight"
          /\ result.info = [got |-> UntrustedHeader.height,
                            expected |-> TrustedHeader.height + 1]
    /\ Returned("Ok") => UntrustedHeader.height > TrustedHeader.height

\* a later header of a height below the trusted one, fully signed
C8_Witness ==
    /\ Returned("NonIncreasingHeight")
    /\ UntrustedHeader.height < TrustedHeader.height
    /\ FullCommitOk

(***************************************************************************)
(* C9: the checks of verify_single run in a fixed order and the first      *)
(* failing one gives the error: expiry (Expired, then DurationOutOfRange), *)
(* validators hash, next validators hash, header hash against the commit,  *)
(* commit.validate, time, the heights (NonIncreasingHeight, the sequential *)
(* binding, the skipping trust gate) and last the +2/3 check.  In skipping *)
(* mode a commit failing both the trust gate and the +2/3 check gives      *)
(* InsufficientSignedVotingPower.                                          *)
(***************************************************************************)
\* the error of the first failing check, in the order claimed
FirstFailure ==
    IF ~NotExpired THEN "Expired"
    ELSE IF ~NotFromFuture THEN "DurationOutOfRange"
    ELSE IF ~ValsHashOk THEN "InvalidValidatorSet"
    ELSE IF ~NextValsHashOk THEN "InvalidNextValidatorSet"
    ELSE IF ~CommitHashOk THEN "InvalidCommitValue"
    ELSE IF ~CommitValid THEN "ImplementationSpecific"
    ELSE IF ~TimeIncreases THEN "NonIncreasingTime"
    ELSE IF UntrustedHeader.height < TrustedHeader.height + 1 THEN "NonIncreasingHeight"
    ELSE IF Sequential /\ ~SequentialHashOk THEN "InvalidValidatorSet"
    ELSE IF Skipping /\ ~IsOk(CommonPower) THEN "ImplementationSpecific"
    ELSE IF Skipping /\ CommonPower.info < MinimumPower
    THEN "InsufficientSignedVotingPower"
    ELSE IF ~IsOk(FullPower) THEN "ImplementationSpecific"
    ELSE IF ~FullCommitOk THEN "InvalidCommit"
    ELSE "Ok"

Rerun ==
    verify_single(result.info, call.untrusted_sh, call.untrusted_vals,
                  call.untrusted_next_vals, call.trust_threshold,
                  call.trusting_period, call.now)

\* C10 as claimed: the second run fails with NonIncreasingHeight
C10_RerunNonIncreasingHeight ==
    Returned("Ok") => Rerun.kind = "NonIncreasingHeight"

\* C10 as amended: the second run fails with NonIncreasingTime, the time
\* check coming before the height check, or with DurationOutOfRange when
\* the accepted header is later than now
C10_RerunNonIncreasingTime ==
    Returned("Ok") =>
        Rerun.kind = IF UntrustedHeader.time <= call.now
                     THEN "NonIncreasingTime"
                     ELSE "DurationOutOfRange"

\* a success whose second run fails on the time
C10_Witness ==
    /\ Returned("Ok")
    /\ Rerun.kind = "NonIncreasingTime"

NextHeaderOfTrusted ==
    FullCommit(Header(TrustedHeader.height + 1, TrustedHeader.time + 1,
                      SetHash(TrustedVals), SetHash(TrustedVals)),
               TrustedVals)

C12_ExpiryTerminal ==
    Returned("Expired") =>
        \A later \in Times, th \in Thresholds :
            later >= call.now =>
                /\ verify_single(call.trusted_state, call.untrusted_sh,
                                 call.untrusted_vals, call.untrusted_next_vals,
                                 th, call.trusting_period, later).kind = "Expired"
                /\ verify_single(call.trusted_state, NextHeaderOfTrusted,
                                 TrustedVals, TrustedVals,
                                 th, call.trusting_period, later).kind = "Expired"

\* expired at the expiry instant, with later times to ask about, and a
\* header that the same call would have accepted one second earlier
C12_Witness ==
    /\ Returned("Expired")
    /\ call.now = ExpiresAt
    /\ call.now < MaxTime
    /\ call.now > 0
    /\ IsOk(verify_single(call.trusted_state, NextHeaderOfTrusted,
                          TrustedVals, TrustedVals, TrustThresholdFraction_default,
                          call.trusting_period, call.now - 1))

(***************************************************************************)
(* C13: every TrustedState that verify_single returns has a header whose   *)
(* next_validators_hash is the hash of the state's validators and whose    *)
(* hash is the one its commit is for; a store started from a state with    *)
(* both properties therefore keeps them over any sequence of updates.      *)
(***************************************************************************)
NextValidatorsBound(ts) ==
    ts.last_header.header.next_validators_hash = SetHash(ts.validators)
CommitBound(ts) ==
    HeaderHash(ts.last_header.header) = header_hash(ts.last_header.commit)

C13_TrustedStateInvariants ==
    /\ Returned("Ok") => NextValidatorsBound(result.info) /\ CommitBound(result.info)
    /\ NextValidatorsBound(trusted) /\ CommitBound(trusted)

\* a third update in a row that changes the validators
C13_Witness ==
    /\ Returned("Ok")
    /\ updates = ChainDepth - 1
    /\ result.info.validators # trusted.validators
    /\ result.info.validators # UntrustedVals
    /\ result.info.last_header # trusted.last_header

(***************************************************************************)
(* C14: verify_single accepts a header only if the validators of           *)
(* untrusted_vals whose entry in the commit is a Commit-variant signature  *)
(* for commit.block_id hold more than 2/3 of untrusted_vals.total_power(); *)
(* Nil-variant and Absent entries add no power.  The code counts every     *)
(* non-absent vote whose signature verifies, precommits for nil included.  *)
(***************************************************************************)
\* the validators with a Commit-variant entry signed for the commit's block
CommitSigners ==
    LET sigs == UntrustedCommit.commit.signatures
    IN {sigs[i].validator_address :
          i \in {j \in 1..Len(sigs) :
                   /\ sigs[j].flag = "BlockIDFlagCommit"
                   /\ sigs[j].signature =
                         Sign(sigs[j].validator_address, UntrustedCommit.commit.height,
                              UntrustedCommit.commit.round,
                              Some(UntrustedCommit.commit.block_id))}}
\* the power that the first n validators of vals hold among addresses
RECURSIVE PowerOf(_, _, _)
PowerOf(vals, n, addresses) ==
    IF n = 0 THEN 0
    ELSE PowerOf(vals, n - 1, addresses)
         + (IF vals.validators[n].address \in addresses
            THEN vals.validators[n].voting_power ELSE 0)

C14_OnlyCommitVotesCount ==
    Returned("Ok") =>
        3 * PowerOf(UntrustedVals, Len(UntrustedVals.validators), CommitSigners)
           > 2 * total_power(UntrustedVals)

(***************************************************************************)
(* C15: for every threshold num/den and all powers signed and total,       *)
(* minimum_power_to_be_trusted(total) is floor(total * num / den) + 1 and  *)
(* is_enough_power(signed, total) holds iff signed reaches that number,    *)
(* the product, the quotient and the sum being those of the integers.      *)
(***************************************************************************)
Called(op) == call.made /\ call.op = op
\* floor(total * num / den) + 1 over the integers
ExactMinimum(self, total) == ((total * self.numerator) \div self.denominator) + 1

C15_MinimumPowerFormula ==
    /\ Called("minimum_power_to_be_trusted") =>
          result.info = ExactMinimum(call.self, call.total_voting_power)
    /\ Called("is_enough_power") =>
          (result.info <=>
             call.signed_voting_power
                >= ExactMinimum(call.self, call.total_voting_power))

(***************************************************************************)
(* C16: TrustThresholdFraction::new(numerator, denominator) returns Ok     *)
(* with those two fields iff denominator > 0, numerator <= denominator and *)
(* 3 * numerator >= denominator, the product being that of the integers    *)
(* also when it exceeds the u64 range, and InvalidTrustThreshold           *)
(* otherwise; the default threshold is 2/3.                                *)
(***************************************************************************)
\* 1/3 <= numerator/denominator <= 1
ValidFraction(numerator, denominator) ==
    /\ denominator > 0
    /\ numerator <= denominator
    /\ 3 * numerator >= denominator

C16_NewAcceptsValidFractions ==
    /\ Called("new") =>
          IF ValidFraction(call.numerator, call.denominator)
          THEN result = Ok([numerator |-> call.numerator,
                            denominator |-> call.denominator])
          ELSE result.kind = "InvalidTrustThreshold"
    /\ TrustThresholdFraction_default = [numerator |-> 2, denominator |-> 3]

(***************************************************************************)
(* C17: for every threshold with den > 0, num <= den and 3 * num >= den,   *)
(* is_enough_power is monotonic in signed and anti-monotonic in total over *)
(* the whole u64 range: when is_enough_power(s, t) holds, so do            *)
(* is_enough_power(s2, t) for every s2 >= s and is_enough_power(s, t2)     *)
(* for every t2 <= t.                                                      *)
(***************************************************************************)
C17_IsEnoughPowerMonotonic ==
    (/\ Called("is_enough_power")
     /\ ValidFraction(call.self.numerator, call.self.denominator)
     /\ result.info) =>
        /\ \A s2 \in U64Values :
              s2 >= call.signed_voting_power =>
                 is_enough_power(call.self, s2, call.total_voting_power)
        /\ \A t2 \in U64Values :
              t2 <= call.total_voting_power =>
                 is_enough_power(call.self, call.signed_voting_power, t2)

(***************************************************************************)
(* C18: when the non-absent votes of validators in vals have valid         *)
(* signatures and pairwise distinct addresses, voting_power_in returns the *)
(* sum of the powers that vals records for them; votes of addresses not in *)
(* vals, whatever their signatures and however often they occur, change    *)
(* nothing.  The sum is that of the integers.                              *)
(***************************************************************************)
Entries == call.self.commit.signatures
NonAbsent == {j \in 1..Len(Entries) : Entries[j].flag # "BlockIDFlagAbsent"}
\* the non-absent entries of validators in the set
Known == {j \in NonAbsent : Entries[j].validator_address \in AddressesOf(call.validators)}
\* the entry carries its validator's signature of the vote it stands for
ValidSignature(j) ==
    Entries[j].signature =
        Sign(Entries[j].validator_address, call.self.commit.height,
             call.self.commit.round,
             IF Entries[j].flag = "BlockIDFlagCommit"
             THEN Some(call.self.commit.block_id) ELSE None)
\* an earlier entry is a vote of the same validator
SeenBefore(j) ==
    \E i \in NonAbsent : i < j /\ Entries[i].validator_address = Entries[j].validator_address

C18_SumOfKnownVotes ==
    (/\ Called("voting_power_in")
     /\ \A j \in Known : ValidSignature(j) /\ ~SeenBefore(j)) =>
        result = Ok(PowerOf(call.validators, Len(call.validators.validators),
                            {Entries[j].validator_address : j \in Known}))

(***************************************************************************)
(* C19: voting_power_in fails with ImplementationSpecific at the first     *)
(* vote of a validator in vals that is a second vote of that validator or  *)
(* whose signature does not verify, reporting the duplicate when the vote  *)
(* is both; it succeeds when there is no such vote, so that duplicates     *)
(* among addresses not in vals never cause an error.                       *)
(***************************************************************************)
Failing == {j \in Known : SeenBefore(j) \/ ~ValidSignature(j)}
FirstFailing == CHOOSE j \in Failing : \A i \in Failing : j <= i

C19_FirstBadVoteFails ==
    Called("voting_power_in") =>
        IF Failing = {} THEN IsOk(result)
        ELSE result = Err("ImplementationSpecific",
                          IF SeenBefore(FirstFailing) THEN "duplicate vote"
                          ELSE "bad signature")

\* a second vote of a validator of the set with a signature that does not
\* verify, after two votes of one address outside the set
C19_Witness ==
    /\ Called("voting_power_in")
    /\ Failing # {}
    /\ SeenBefore(FirstFailing) /\ ~ValidSignature(FirstFailing)
    /\ \E i \in NonAbsent \ Known : i < FirstFailing /\ SeenBefore(i)
    /\ result = Err("ImplementationSpecific", "duplicate vote")

(***************************************************************************)
(* C20: Commit::validate(vals) returns Ok iff the commit has at least one  *)
(* signature entry, as many entries as vals has validators, and no entry   *)
(* other than Absent ones of an address that is not in vals; otherwise it  *)
(* returns ImplementationSpecific, and verify_single, having reached it,   *)
(* fails with that error whatever the time and height of the header and    *)
(* the power of its commit are.                                            *)
(***************************************************************************)
\* what the claim asks of a commit
WellFormedCommit ==
    LET sigs == UntrustedCommit.commit.signatures
    IN /\ Len(sigs) >= 1
       /\ Len(sigs) = Len(UntrustedVals.validators)
       /\ \A i \in 1..Len(sigs) :
             sigs[i].flag # "BlockIDFlagAbsent" =>
                sigs[i].validator_address \in AddressesOf(UntrustedVals)
\* verify_single reaches commit.validate
ReachesCommitValidate ==
    /\ NotExpired /\ NotFromFuture
    /\ ValsHashOk /\ NextValsHashOk /\ CommitHashOk

C20_CommitValidate ==
    call.made =>
        /\ CommitValid <=> WellFormedCommit
        /\ ~CommitValid =>
              commit_validate(UntrustedCommit, UntrustedVals).kind
                 = "ImplementationSpecific"
        /\ (ReachesCommitValidate /\ ~WellFormedCommit) =>
              /\ result.kind = "ImplementationSpecific"
              /\ result = commit_validate(UntrustedCommit, UntrustedVals)

\* a commit without signatures on a header that is neither later nor higher
\* than the trusted one: the commit's error is the one returned
C20_Witness ==
    /\ call.made
    /\ ReachesCommitValidate /\ ~WellFormedCommit
    /\ ~TimeIncreases
    /\ UntrustedHeader.height <= TrustedHeader.height
    /\ ~FullCommitOk
    /\ result.kind = "ImplementationSpecific"

(***************************************************************************)
(* C21: A.intersect(B) holds exactly one validator for every address that  *)
(* is both in A and in B and no other, each as it is in A, sorted by       *)
(* address; its total_power is the sum of A's powers over the common       *)
(* addresses, is at most A.total_power(), and is 0 for disjoint sets.  The *)
(* sum is that of the integers, and is asked for where A holds each of its *)
(* addresses once.                                                         *)
(***************************************************************************)
\* ascending by address, no address twice
StrictlySorted(set) ==
    \A i \in 1..(Len(set.validators) - 1) :
        set.validators[i].address < set.validators[i + 1].address
MembersOf(set) == {set.validators[i] : i \in 1..Len(set.validators)}
CommonAddresses == AddressesOf(call.self) \cap AddressesOf(call.other)

C21_Intersect ==
    Called("intersect") =>
        /\ AddressesOf(result.info) = CommonAddresses
        /\ StrictlySorted(result.info)
        /\ MembersOf(result.info) \subseteq MembersOf(call.self)
        /\ StrictlySorted(call.self) =>
              total_power(result.info)
                 = PowerOf(call.self, Len(call.self.validators), CommonAddresses)
        /\ total_power(result.info) <= total_power(call.self)
        /\ CommonAddresses = {} => total_power(result.info) = 0

(***************************************************************************)
(* C22: every validator set that Set::new builds, from any vector and also *)
(* within intersect, holds its validators sorted ascending by address with *)
(* no two of them sharing an address.                                      *)
(***************************************************************************)
C22_SortedAndUnique ==
    (Called("new") \/ Called("intersect")) => StrictlySorted(result.info)

(***************************************************************************)
(* C23: Set::new(vs).hash() is the same for any two vectors with the same  *)
(* validators, in whatever order and however often each occurs; the two    *)
(* validator lists are the same as well.                                   *)
(***************************************************************************)
ElementsOf(vals) == {vals[i] : i \in 1..Len(vals)}
\* each address comes with one validator info
OneInfoPerAddress(vals) ==
    \A i, j \in 1..Len(vals) : vals[i].address = vals[j].address => vals[i] = vals[j]

C23_HashOfSameValidators ==
    (Called("hash") /\ OneInfoPerAddress(call.vals)) =>
        \A ws \in Vectors :
            ElementsOf(ws) = ElementsOf(call.vals) =>
                /\ SetNew(ws) = SetNew(call.vals)
                /\ SetHash(SetNew(ws)) = result.info

(***************************************************************************)
(* C24: total_power() of a validator set is the exact sum of the voting    *)
(* powers of its validators, and for a set whose sum does not fit in u64   *)
(* no total is returned: neither a wrapped nor a truncated one.            *)
(***************************************************************************)
\* the sum of the voting powers over the integers
ExactTotal(set) == PowerOf(set, Len(set.validators), Addrs)

C24_ExactTotalPower ==
    Called("total_power") =>
        IF ExactTotal(call.self) < U64Modulus
        THEN result = Ok(ExactTotal(call.self))
        ELSE ~IsOk(result)

(***************************************************************************)
(* C25: validate_initial_signed_header_and_valset returns Ok iff the       *)
(* header names the validators, the commit is for the header, the commit   *)
(* is well formed for the validators and 3 * voting_power_in(vals) >       *)
(* 2 * vals.total_power(), and fails with the error of the first of these  *)
(* that does not hold; the time and the height of the header play no part. *)
(* The two products are those of the integers.                             *)
(***************************************************************************)
C25_ValidateInitial ==
    Called("validate_initial_signed_header_and_valset") =>
        IF ~ValsHashOk THEN result.kind = "InvalidValidatorSet"
        ELSE IF ~CommitHashOk THEN result.kind = "InvalidCommitValue"
        ELSE IF ~WellFormedCommit THEN result.kind = "ImplementationSpecific"
        ELSE IF ~IsOk(FullPower) THEN result = FullPower
        ELSE IF 3 * FullPower.info <= 2 * total_power(UntrustedVals)
        THEN result.kind = "InvalidCommit"
        ELSE result = Ok("unit")

(***************************************************************************)
(* C26: for every leaf count n >= 2 the split point k of the Merkle tree   *)
(* is the largest power of two strictly less than n, so that 0 < k < n and *)
(* 2k >= n; the tree hashes the leaves [0, k) and [k, n) in this order,    *)
(* the hash of no leaves is 32 zero bytes and that of one leaf its leaf    *)
(* hash, and the hash never ends in a panic of get_split_point.            *)
(***************************************************************************)
PowersOfTwo == {2 ^ e : e \in 0..MaxLeaves}
\* the largest power of two strictly less than n
LargestPowerBelow(n) ==
    CHOOSE k \in PowersOfTwo : k < n /\ \A j \in PowersOfTwo : j < n => j <= k
\* the tree that the claim describes
RECURSIVE TreeOf(_)
TreeOf(leaves) ==
    IF Len(leaves) = 0 THEN [i \in 1..32 |-> 0]
    ELSE IF Len(leaves) = 1 THEN leaf_hash(leaves[1])
    ELSE LET k == LargestPowerBelow(Len(leaves))
         IN inner_hash(TreeOf(SubSeq(leaves, 1, k)),
                       TreeOf(SubSeq(leaves, k + 1, Len(leaves))))

C26_MerkleSplit ==
    /\ (Called("get_split_point") /\ call.length >= 2) =>
          /\ result = Ok(LargestPowerBelow(call.length))
          /\ 0 < result.info /\ result.info < call.length
          /\ 2 * result.info >= call.length
    /\ Called("simple_hash_from_byte_vectors") =>
          result = Ok(TreeOf(call.byte_vecs))

\* a tree of more leaves than a power of two, its right part being a tree
\* of more than one leaf
C26_Witness ==
    /\ Called("simple_hash_from_byte_vectors")
    /\ Len(call.byte_vecs) = 7
    /\ IsOk(result)
    /\ result.info # TreeOf(SubSeq(call.byte_vecs, 1, 6) \o <<<<0>>>>)
    /\ call.byte_vecs[7] = <<1>>

(***************************************************************************)
(* C27: along any sequence of verify_single calls whose successful results *)
(* alone replace the trusted state, every successful update strictly       *)
(* increases the height and the time of the trusted header, neither ever   *)
(* decreases, and the newly trusted state expires strictly later than the  *)
(* time of the call.                                                       *)
(***************************************************************************)
C27_ChainMonotonic ==
    [][/\ trusted'.last_header.header.height >= trusted.last_header.header.height
       /\ trusted'.last_header.header.time >= trusted.last_header.header.time
       /\ (call.made /\ IsOk(result)) =>
             /\ trusted'.last_header.header.height
                   > trusted.last_header.header.height
             /\ trusted'.last_header.header.time
                   > trusted.last_header.header.time
             /\ trusted'.last_header.header.time + call.trusting_period
                   > call.now]_vars

\* a skip accepted by a store that has already moved twice
C27_Witness ==
    /\ Returned("Ok")
    /\ updates = ChainDepth - 1
    /\ trusted.last_header.header.height > InitialHeight + 2
    /\ result.info.last_header.header.height
          = trusted.last_header.header.height + 2
    /\ result.info.last_header.header.time > InitialTime + 2

(***************************************************************************)
(* C28: the voting-power arithmetic decides the inequalities of the        *)
(* integers for all u64 powers: verify_commit_full accepts iff             *)
(* 3 * signed > 2 * total, and minimum_power_to_be_trusted(total) is       *)
(* floor(total * num / den) + 1, so that no wrap-around of signed * 3,     *)
(* total * 2 or total * numerator lets an insufficiently signed commit     *)
(* pass.                                                                   *)
(***************************************************************************)
C28_ExactArithmetic ==
    call.made =>
        /\ IsOk(FullPower) =>
              (FullCommitOk <=>
                  3 * FullPower.info > 2 * total_power(UntrustedVals))
        /\ MinimumPower
              = ExactMinimum(call.trust_threshold, total_power(TrustedVals))

(***************************************************************************)
(* C29: when verify_single returns Ok, every entry of the commit that is   *)
(* not Absent, for the block or for nil, is of a validator of              *)
(* untrusted_vals and carries that validator's signature of its vote, and  *)
(* no validator has two such entries; one entry with a signature that does *)
(* not verify, or a second entry of a validator, has the header rejected   *)
(* with ImplementationSpecific although the other entries hold more than   *)
(* 2/3 of the power.                                                       *)
(***************************************************************************)
CommitEntriesOf == UntrustedCommit.commit.signatures
PresentEntries ==
    {j \in 1..Len(CommitEntriesOf) : CommitEntriesOf[j].flag # "BlockIDFlagAbsent"}
\* the entry carries the signature of the vote it stands for by the validator
\* it names
EntrySigned(j) ==
    CommitEntriesOf[j].signature =
        Sign(CommitEntriesOf[j].validator_address, UntrustedCommit.commit.height,
             UntrustedCommit.commit.round,
             IF CommitEntriesOf[j].flag = "BlockIDFlagCommit"
             THEN Some(UntrustedCommit.commit.block_id) ELSE None)
EntryRepeated(j) ==
    \E i \in PresentEntries :
        i # j /\ CommitEntriesOf[i].validator_address = CommitEntriesOf[j].validator_address
\* the entries that are signed, of validators of the set, one for each
SoundEntries ==
    {j \in PresentEntries :
        /\ CommitEntriesOf[j].validator_address \in AddressesOf(UntrustedVals)
        /\ EntrySigned(j)
        /\ ~EntryRepeated(j)}
\* the checks that do not read the signatures pass
PassesOtherChecks ==
    /\ SelfConsistent /\ TimeIncreases
    /\ \/ Sequential /\ SequentialHashOk
       \/ Skipping /\ ~(IsOk(CommonPower) /\ CommonPower.info < MinimumPower)

C29_EverySignatureCounts ==
    /\ Returned("Ok") => SoundEntries = PresentEntries
    /\ (call.made /\ PassesOtherChecks /\ SoundEntries # PresentEntries) =>
          result.kind = "ImplementationSpecific"

\* the sound entries hold more than 2/3 of the power of the validators, and
\* the one remaining entry carries a signature that does not verify
C29_Witness ==
    /\ call.made /\ PassesOtherChecks
    /\ Cardinality(PresentEntries \ SoundEntries) = 1
    /\ 3 * PowerOf(UntrustedVals, Len(UntrustedVals.validators),
                   {CommitEntriesOf[j].validator_address : j \in SoundEntries})
          > 2 * ExactTotal(UntrustedVals)
    /\ result.kind = "ImplementationSpecific"

(***************************************************************************)
(* C30: with a trust threshold equal to 1 no skipping verification         *)
(* succeeds: the power counted in the intersection is at most the trusted  *)
(* total and the minimum asked for is that total plus 1, so the call fails *)
(* with InsufficientSignedVotingPower or with an earlier error.            *)
(***************************************************************************)
C30_UnanimousNeverSkips ==
    (/\ call.made
     /\ call.trust_threshold.numerator = call.trust_threshold.denominator
     /\ Skipping) =>
        /\ MinimumPower = ExactTotal(TrustedVals) + 1
        /\ IsOk(CommonPower) => CommonPower.info <= ExactTotal(TrustedVals)
        /\ result.kind \in {"Expired", "DurationOutOfRange", "InvalidValidatorSet",
                            "InvalidNextValidatorSet", "InvalidCommitValue",
                            "ImplementationSpecific", "NonIncreasingTime",
                            "InsufficientSignedVotingPower"}

====
